---- MODULE Spec2Model ----
(***************************************************************************)
(* State-machine model of the admin console (App component and its API     *)
(* client).  Every async handler is split at its await points: the         *)
(* synchronous prefix up to the first await is one action, each            *)
(* continuation after an await is one action, and the remote store         *)
(* answering a request is one action.  A handler in flight keeps the       *)
(* values its closure captured when it was activated.                      *)
(***************************************************************************)
EXTENDS Naturals, Sequences, FiniteSets, TLC

\* ------------------------------------------------------------------ bounds
\* Handlers (submit, delete, login load) that may be in flight together.
MaxOps == 2
\* Products the remote store creates during one run.
MaxCreated == 1

\* ------------------------------------------------------------------ values
\* JavaScript null / undefined (an absent optional field).
Null == "<null>"
Absent == "<undefined>"
\* imageFile state: File | null.
NoFile == "<nofile>"
File1 == "photo.png"

\* JavaScript truthiness of a string-or-undefined value.
Falsy(v) == v \in {"", Absent, Null}
\* JavaScript a || b.
Or(a, b) == IF Falsy(a) THEN b ELSE a
\* A trim that keeps whitespace.
trim_keepsWhitespace(s) == s

\* String.prototype.trim on the titles the model types.
trim(s) == IF s \in {"", " ", "  "} THEN "" ELSE s

\* A secret that matches a wrong guess.
ADMIN_PASSWORD_guessable == "guess"

ADMIN_PASSWORD == "admin123"
Passwords == {"", ADMIN_PASSWORD, "guess"}

ACCESSORIES_SUBCATEGORIES == {"Necklaces", "Anklets"}
GIFTS_SUBCATEGORIES == {"Bouquet", "Return gifts"}
Categories == {"accessories", "gifts"}
Vocabulary(c) == IF c = "accessories" THEN ACCESSORIES_SUBCATEGORIES ELSE GIFTS_SUBCATEGORIES

initialForm ==
  [title |-> "", description |-> "", price |-> "", originalPrice |-> "",
   offerPrice |-> "", category |-> "accessories", subcategory |-> "", badge |-> "",
   imageUrl |-> "", availableQuantity |-> ""]

\* Optional number (ApiProduct.availableQuantity): <<>> is undefined, <<n>> is n.
None == <<>>
Some(n) == <<n>>

\* parseInt(s, 10) on the quantity strings the model types: the leading run of
\* decimal digits ("1e2" parses as 1).
parseInt10(s) ==
  CASE s = "0" -> 0
    [] s = "1" -> 1
    [] s = "3" -> 3
    [] s = "100" -> 100
    [] s = "1e2" -> 1
    [] OTHER -> 0

\* A conversion that treats 0 as no quantity.
String_falsyZero(n) ==
  CASE n = 0 -> ""
    [] n = 1 -> "1"
    [] n = 3 -> "3"
    [] OTHER -> "100"

\* String(n) of a stored quantity.
String(n) ==
  CASE n = 0 -> "0"
    [] n = 1 -> "1"
    [] n = 3 -> "3"
    [] OTHER -> "100"

\* An ApiProduct is a record with the fields id, title, description, price,
\* originalPrice, offerPrice, category, subcategory, imageUrl, image, badge and
\* availableQuantity; an optional field that is missing holds Absent (None for
\* the quantity).

\* The two category lists, each a set of products (their order is the remote
\* store's and no handler reads it).
EmptySnapshot == [accessories |-> {}, gifts |-> {}]
\* What the remote store may hold when the console starts.
Catalogs == {EmptySnapshot}

\* ------------------------------------------------------------------- state
VARIABLES
  marker,          \* localStorage 'admin_authed' = 'true'
  authed,          \* useState authed
  form,            \* useState form (the draft)
  imageFile,       \* useState imageFile
  uploadingImage,  \* useState uploadingImage
  products,        \* useState products (the catalog snapshot)
  loading,         \* useState loading
  error,           \* useState error
  editingProduct,  \* useState editingProduct (the edit target)
  ops,             \* handlers in flight: closure, position, request and response
  store,           \* the remote store's two lists
  created,         \* products the remote store has created
  deleted,         \* history: <<id, category>> of every delete the console saw succeed
  reloadFailed     \* history: a list request failed since the last successful mutation

vars ==
  <<marker, authed, form, imageFile, uploadingImage, products, loading,
    error, editingProduct, ops, store, created, deleted, reloadFailed>>

\* The console's own state (everything the handlers assign).
uiVars ==
  <<marker, authed, form, imageFile, uploadingImage, products, loading,
    error, editingProduct>>

Slots == 1 .. MaxOps

\* A free slot: no handler in flight in it.
Idle ==
  [kind |-> "idle", pc |-> "-", form |-> initialForm, imageFile |-> NoFile,
   editingProduct |-> None, id |-> Absent, category |-> Absent,
   productData |-> None, method |-> "-", st |-> "-", data |-> EmptySnapshot,
   msg |-> "", calls |-> <<>>]

FreeSlots == {s \in Slots : ops[s].kind = "idle"}
\* The slot a newly activated handler takes.
NewSlot == CHOOSE s \in FreeSlots : \A t \in FreeSlots : s <= t

\* No handler is in flight: no request waits for the remote side (st "sent")
\* and no answer waits for its handler to resume (st "ok" / "fail").
Quiescent == \A s \in Slots : ops[s].kind = "idle"

\* load(), lines 86-89: clear the error and issue the list request.  The
\* handler's closure is not read again, so the model drops it.
LoadOp(base) ==
  [Idle EXCEPT !.kind = base.kind, !.pc = "load", !.method = "list", !.st = "sent",
               !.calls = Append(base.calls, "list")]

Init ==
  /\ marker \in BOOLEAN
  /\ authed = marker
  /\ form = initialForm
  /\ imageFile = NoFile
  /\ uploadingImage = FALSE
  /\ products = EmptySnapshot
  /\ loading = FALSE
  /\ error = Null
  /\ editingProduct = None
  /\ ops = [s \in Slots |->
             IF s = 1 /\ marker THEN LoadOp([Idle EXCEPT !.kind = "load"]) ELSE Idle]
  /\ store \in Catalogs
  /\ created = 0
  /\ deleted = {}
  /\ reloadFailed = FALSE

\* ------------------------------------------------------------------- login
\* handleLogin, lines 102-110, with the password the operator typed (the
\* password state is read nowhere else), and on success the effect on
\* [authed] that calls load(), lines 96-100.
login(typed) ==
  /\ ~authed
  /\ IF typed = ADMIN_PASSWORD
       THEN /\ FreeSlots # {}
            /\ marker' = TRUE
            /\ authed' = TRUE
            /\ error' = Null
            /\ ops' = [ops EXCEPT ![NewSlot] = LoadOp([Idle EXCEPT !.kind = "load"])]
       ELSE /\ error' = "Invalid password"
            /\ UNCHANGED <<marker, authed, ops>>
  /\ UNCHANGED <<form, imageFile, uploadingImage, products, loading,
                 editingProduct, store, created, deleted, reloadFailed>>

\* The login form submitted with whatever the password input holds.
handleLogin == \E typed \in Passwords : login(typed)

\* ------------------------------------------------------------------- draft
\* What the operator may put into each input.
Titles == {"", " ", "T"}
Texts == {"", "x"}
Prices == {"", "500"}
Quantities == {"", "0", "3", "1e2"}
ImageUrls == {"", "u.png"}

FieldValues(name) ==
  CASE name = "title" -> Titles
    [] name = "price" -> Prices
    [] name = "originalPrice" -> Prices
    [] name = "offerPrice" -> Prices
    [] name = "availableQuantity" -> Quantities
    [] name = "subcategory" -> {""} \cup Vocabulary(form.category)
    [] OTHER -> Texts

\* handleChange, lines 112-117: setForm(prev => ({...prev, [name]: value})).
handleChange(f, name, value) == [f EXCEPT ![name] = value]

draftFrame ==
  UNCHANGED <<marker, authed, uploadingImage, products, loading, error,
              ops, store, created, deleted, reloadFailed>>

\* onChange of an input or select wired to handleChange alone (the quantity
\* input is rendered for accessories only, line 392).
changeField(name) ==
  /\ authed
  /\ name = "availableQuantity" => form.category = "accessories"
  /\ \E v \in FieldValues(name) :
       /\ v # form[name]
       /\ form' = handleChange(form, name, v)
  /\ UNCHANGED <<imageFile, editingProduct>>
  /\ draftFrame

\* A category change that carries the subcategory across.
changeCategory_keepsSubcategory ==
  /\ authed
  /\ \E c \in Categories :
       /\ c # form.category
       /\ form' = handleChange(form, "category", c)
  /\ UNCHANGED <<imageFile, editingProduct>>
  /\ draftFrame

\* onChange of the category select, lines 354-357.
changeCategory ==
  /\ authed
  /\ \E c \in Categories :
       /\ c # form.category
       /\ form' = [handleChange(form, "category", c) EXCEPT !.subcategory = ""]
  /\ UNCHANGED <<imageFile, editingProduct>>
  /\ draftFrame

\* A file selection that leaves the typed URL in place.
selectFile_keepsUrl ==
  /\ authed
  /\ imageFile' = File1
  /\ imageFile' # imageFile
  /\ UNCHANGED <<form, editingProduct>>
  /\ draftFrame

\* onChange of the file input, lines 413-419.
selectFile ==
  /\ authed
  /\ imageFile' = File1
  /\ form' = [form EXCEPT !.imageUrl = ""]
  /\ <<imageFile', form'>> # <<imageFile, form>>
  /\ UNCHANGED editingProduct
  /\ draftFrame

\* onChange of the image URL input, lines 432-435.
changeImageUrl ==
  /\ authed
  /\ \E v \in ImageUrls :
       /\ v # form.imageUrl
       /\ form' = handleChange(form, "imageUrl", v)
       /\ imageFile' = IF ~Falsy(v) THEN NoFile ELSE imageFile
  /\ UNCHANGED editingProduct
  /\ draftFrame

\* ep?.id of an optional product.
idOf(ep) == IF ep = None THEN Absent ELSE ep[1].id

\* The products listed on screen.
Listed == products.accessories \cup products.gifts

\* A begin-edit that loads every product under the default category.
editForm_defaultCategory(product) ==
  [title |-> Or(product.title, ""),
   description |-> Or(product.description, ""),
   price |-> Or(product.price, ""),
   originalPrice |-> Or(product.originalPrice, ""),
   offerPrice |-> Or(product.offerPrice, ""),
   category |-> "accessories",
   subcategory |-> Or(product.subcategory, ""),
   badge |-> Or(product.badge, ""),
   imageUrl |-> Or(product.imageUrl, Or(product.image, "")),
   availableQuantity |->
     IF product.availableQuantity # None THEN String(product.availableQuantity[1]) ELSE ""]

\* The draft handleEdit builds from a product, lines 198-210.
editForm(product) ==
  [title |-> Or(product.title, ""),
   description |-> Or(product.description, ""),
   price |-> Or(product.price, ""),
   originalPrice |-> Or(product.originalPrice, ""),
   offerPrice |-> Or(product.offerPrice, ""),
   category |-> Or(product.category, "accessories"),
   subcategory |-> Or(product.subcategory, ""),
   badge |-> Or(product.badge, ""),
   imageUrl |-> Or(product.imageUrl, Or(product.image, "")),
   availableQuantity |->
     IF product.availableQuantity # None THEN String(product.availableQuantity[1]) ELSE ""]

\* handleEdit, lines 196-217; the Edit button is disabled for the product
\* whose id is the edit target's (line 569).
handleEdit ==
  /\ authed
  /\ \E p \in Listed :
       /\ idOf(editingProduct) # p.id
       /\ editingProduct' = Some(p)
       /\ form' = editForm(p)
  /\ imageFile' = NoFile
  /\ draftFrame

\* handleCancelEdit, lines 219-226; the Cancel button exists while an edit
\* target is set (line 295).
handleCancelEdit ==
  /\ authed
  /\ editingProduct # None
  /\ editingProduct' = None
  /\ form' = initialForm
  /\ imageFile' = NoFile
  /\ draftFrame

\* -------------------------------------------------------------- API client
\* What fetch can come back with: the promise rejects (no response), or a
\* response with res.ok, a status, and a body that parses as JSON or does not.
Response(rejected, ok, status, json, err, url) ==
  [rejected |-> rejected, ok |-> ok, status |-> status, json |-> json,
   error |-> err, url |-> url]

Ok200 == Response(FALSE, TRUE, "200", TRUE, Absent, Absent)
Http(status) == Response(FALSE, FALSE, status, TRUE, Absent, Absent)
Rejected == Response(TRUE, FALSE, "0", FALSE, Absent, Absent)

\* Failures the remote side may answer any request with.
Failures == {Http("500")}
\* Answers of the image host.
UploadUrls == {"cdn.png"}
UploadResponses ==
  {Response(FALSE, TRUE, "200", TRUE, Absent, u) : u \in UploadUrls}
    \cup Failures

FetchError == "Failed to fetch"
SyntaxError == "Unexpected token < in JSON"

Outcome(st, msg) == [st |-> st, msg |-> msg]

\* fetchAllProducts / createProduct / updateProduct / deleteProduct: the
\* response handling they share.
jsonOrThrow(res) ==
  IF res.rejected THEN Outcome("fail", FetchError)
  ELSE IF ~res.ok THEN Outcome("fail", "HTTP " \o res.status)
  ELSE IF ~res.json THEN Outcome("fail", SyntaxError)
  ELSE Outcome("ok", "")

\* uploadImage's response handling.
uploadImage(res) ==
  IF res.rejected THEN Outcome("fail", FetchError)
  ELSE IF ~res.ok
    THEN IF ~res.json THEN Outcome("fail", SyntaxError)
         ELSE Outcome("fail", Or(res.error, "HTTP " \o res.status))
  ELSE IF ~res.json THEN Outcome("fail", SyntaxError)
  ELSE Outcome("ok", res.url)

\* ------------------------------------------------------------------ submit
\* A quantity rule that parses the field whatever the category.
quantityRule_anyCategory(f) ==
  IF ~Falsy(f.availableQuantity) THEN Some(parseInt10(f.availableQuantity)) ELSE None

\* Lines 156-161: availableQuantity is in the payload for accessories with a
\* quantity entered, as parseInt of the field.
quantityRule(f) ==
  IF f.category = "accessories" /\ ~Falsy(f.availableQuantity)
    THEN Some(parseInt10(f.availableQuantity))
    ELSE None

\* Lines 163-166: if (!productData.x) delete productData.x.
cleanUp(v) == IF Falsy(v) THEN Absent ELSE v

\* A legacy price that is never back-filled.
legacyPrice_noBackfill(price, originalPrice) == price

\* Lines 168-170: the legacy price, back-filled with originalPrice when empty.
legacyPrice(price, originalPrice) ==
  IF Falsy(price) /\ ~Falsy(originalPrice) THEN originalPrice ELSE price

\* An image check that lets every draft through.
imageCheck_never(ep, imageUrl) == FALSE

\* Lines 143-145: a create with no image throws.
imageCheck(ep, imageUrl) == Falsy(imageUrl) /\ ep = None

\* An edit that never falls back to the product's image.
existingImage_dropped(file, ep, imageUrl) == imageUrl

\* Lines 147-149: an edit with no new image keeps the product's.
existingImage(file, ep, imageUrl) ==
  IF ep # None /\ Falsy(imageUrl) /\ file = NoFile
    THEN Or(ep[1].imageUrl, Or(ep[1].image, ""))
    ELSE imageUrl

\* productData, lines 151-171: the draft with the resolved image, then the
\* quantity rule, the deletes of empty fields and the legacy price back-fill.
\* A deleted key (and an undefined value, which JSON.stringify drops) is Absent.
productData(f, imageUrl) ==
  LET originalPrice == cleanUp(f.originalPrice)
  IN [title |-> f.title,
      description |-> f.description,
      price |-> legacyPrice(f.price, originalPrice),
      originalPrice |-> originalPrice,
      offerPrice |-> cleanUp(f.offerPrice),
      category |-> f.category,
      subcategory |-> cleanUp(f.subcategory),
      badge |-> cleanUp(f.badge),
      imageUrl |-> imageUrl,
      availableQuantity |-> quantityRule(f)]

\* A mode dispatch that always creates.
resolveSubmit_alwaysCreate(f, file, ep, imageUrl) ==
  IF Falsy(imageUrl) /\ ep = None
    THEN [throw |-> TRUE, msg |-> "Please provide an image (upload file or enter URL)",
          method |-> "-", id |-> Absent, category |-> Absent, productData |-> None]
    ELSE LET img == IF ep # None /\ Falsy(imageUrl) /\ file = NoFile
                      THEN Or(ep[1].imageUrl, Or(ep[1].image, ""))
                      ELSE imageUrl
         IN [throw |-> FALSE, msg |-> "", method |-> "create", id |-> Absent,
             category |-> Absent, productData |-> Some(productData(f, img))]

\* handleSubmit from the image check to the mutation call, lines 141-179, with
\* the closure's draft f, file and edit target ep and the image URL so far.
\* The result either throws (msg) or names the request to issue.
resolveSubmit(f, file, ep, imageUrl) ==
  IF imageCheck(ep, imageUrl)
    THEN [throw |-> TRUE, msg |-> "Please provide an image (upload file or enter URL)",
          method |-> "-", id |-> Absent, category |-> Absent, productData |-> None]
    ELSE LET img == existingImage(file, ep, imageUrl)
         IN IF ep # None
              THEN [throw |-> FALSE, msg |-> "", method |-> "update", id |-> ep[1].id,
                    category |-> f.category, productData |-> Some(productData(f, img))]
              ELSE [throw |-> FALSE, msg |-> "", method |-> "create", id |-> Absent,
                    category |-> Absent, productData |-> Some(productData(f, img))]

\* The handler in flight at its create / update call; nothing of the closure
\* is read after it.
MutateOp(base, r) ==
  [Idle EXCEPT !.kind = base.kind, !.pc = "mutate", !.method = r.method, !.id = r.id,
               !.category = r.category, !.productData = r.productData,
               !.st = "sent", !.calls = Append(base.calls, r.method)]

\* handleSubmit up to its first await, lines 119-179.  The submit button is
\* disabled while loading or uploadingImage (line 443) and the title input is
\* required (line 314).
handleSubmit ==
  /\ authed
  /\ ~(loading \/ uploadingImage)
  /\ form.title # ""
  /\ UNCHANGED <<marker, authed, form, imageFile, products, editingProduct,
                 store, created, deleted, reloadFailed>>
  /\ LET cl == [Idle EXCEPT !.kind = "submit", !.form = form, !.imageFile = imageFile,
                            !.editingProduct = editingProduct]
         r == resolveSubmit(form, imageFile, editingProduct, form.imageUrl)
     IN IF trim(form.title) = ""
          THEN /\ error' = "Title required"
               /\ loading' = FALSE
               /\ UNCHANGED <<uploadingImage, ops>>
          ELSE IF Falsy(form.category)
            THEN /\ error' = "Category required"
                 /\ loading' = FALSE
                 /\ UNCHANGED <<uploadingImage, ops>>
            ELSE IF imageFile # NoFile
              THEN /\ FreeSlots # {}
                   /\ loading' = TRUE
                   /\ error' = Null
                   /\ uploadingImage' = TRUE
                   /\ ops' = [ops EXCEPT ![NewSlot] =
                                [cl EXCEPT !.pc = "upload", !.method = "upload",
                                           !.st = "sent", !.calls = <<"upload">>]]
              ELSE IF r.throw
                THEN /\ error' = r.msg
                     /\ loading' = FALSE
                     /\ UNCHANGED <<uploadingImage, ops>>
                ELSE /\ FreeSlots # {}
                     /\ loading' = TRUE
                     /\ error' = Null
                     /\ ops' = [ops EXCEPT ![NewSlot] = MutateOp(cl, r)]
                     /\ UNCHANGED uploadingImage

\* A submit that goes on to the mutation after a failed upload.
submitAfterUpload_ignoresFailure(s) ==
  /\ ops[s].kind = "submit" /\ ops[s].pc = "upload" /\ ops[s].st \in {"ok", "fail"}
  /\ uploadingImage' = FALSE
  /\ UNCHANGED <<marker, authed, form, imageFile, products, editingProduct,
                 store, created, deleted, reloadFailed>>
  /\ LET o == ops[s]
         r == resolveSubmit(o.form, o.imageFile, o.editingProduct,
                            IF o.st = "ok" THEN o.msg ELSE "broken.png")
     IN IF r.throw
          THEN /\ error' = r.msg
               /\ loading' = FALSE
               /\ ops' = [ops EXCEPT ![s] = Idle]
          ELSE /\ ops' = [ops EXCEPT ![s] = MutateOp(o, r)]
               /\ UNCHANGED <<loading, error>>

\* A resumed submit that reads the draft on screen instead of its closure's.
submitAfterUpload_readsScreen(s) ==
  /\ ops[s].kind = "submit" /\ ops[s].pc = "upload" /\ ops[s].st \in {"ok", "fail"}
  /\ uploadingImage' = FALSE
  /\ UNCHANGED <<marker, authed, form, imageFile, products, editingProduct,
                 store, created, deleted, reloadFailed>>
  /\ LET o == ops[s]
         r == resolveSubmit(form, imageFile, editingProduct, o.msg)
     IN IF o.st = "fail"
          THEN /\ error' = "Image upload failed: " \o o.msg
               /\ loading' = FALSE
               /\ ops' = [ops EXCEPT ![s] = Idle]
          ELSE IF r.throw
            THEN /\ error' = r.msg
                 /\ loading' = FALSE
                 /\ ops' = [ops EXCEPT ![s] = Idle]
            ELSE /\ ops' = [ops EXCEPT ![s] = MutateOp(o, r)]
                 /\ UNCHANGED <<loading, error>>

\* An upload whose result is dropped in favour of the typed URL.
uploadedUrl_typed(o) == o.form.imageUrl

\* imageUrl = await uploadImage(imageFile), line 133, once the upload resolved.
uploadedUrl(o) == o.msg

\* handleSubmit after await uploadImage, lines 133-179 and the catch / finally.
submitAfterUpload(s) ==
  /\ ops[s].kind = "submit" /\ ops[s].pc = "upload" /\ ops[s].st \in {"ok", "fail"}
  /\ uploadingImage' = FALSE
  /\ UNCHANGED <<marker, authed, form, imageFile, products, editingProduct,
                 store, created, deleted, reloadFailed>>
  /\ LET o == ops[s]
         r == resolveSubmit(o.form, o.imageFile, o.editingProduct, uploadedUrl(o))
     IN IF o.st = "fail"
          THEN /\ error' = "Image upload failed: " \o o.msg
               /\ loading' = FALSE
               /\ ops' = [ops EXCEPT ![s] = Idle]
          ELSE IF r.throw
            THEN /\ error' = r.msg
                 /\ loading' = FALSE
                 /\ ops' = [ops EXCEPT ![s] = Idle]
            ELSE /\ ops' = [ops EXCEPT ![s] = MutateOp(o, r)]
                 /\ UNCHANGED <<loading, error>>

\* handleSubmit after await updateProduct / createProduct, lines 175-193.
submitAfterMutate(s) ==
  /\ ops[s].kind = "submit" /\ ops[s].pc = "mutate" /\ ops[s].st \in {"ok", "fail"}
  /\ UNCHANGED <<marker, authed, uploadingImage, products, store, created,
                 deleted>>
  /\ IF ops[s].st = "ok"
       THEN /\ form' = initialForm
            /\ editingProduct' = None
            /\ imageFile' = NoFile
            /\ error' = Null
            /\ ops' = [ops EXCEPT ![s] = LoadOp(ops[s])]
            /\ reloadFailed' = FALSE
            /\ UNCHANGED loading
       ELSE /\ error' = Or(ops[s].msg, "Failed to add product.")
            /\ loading' = FALSE
            /\ ops' = [ops EXCEPT ![s] = Idle]
            /\ UNCHANGED <<form, editingProduct, imageFile, reloadFailed>>

\* ------------------------------------------------------------------ delete
\* handleDelete up to await deleteProduct, lines 228-232; the Delete button of
\* a listed product (lines 573-578) is never disabled.
handleDelete ==
  /\ authed
  /\ FreeSlots # {}
  /\ \E p \in Listed :
       ops' = [ops EXCEPT ![NewSlot] =
                 [Idle EXCEPT !.kind = "delete", !.pc = "delete", !.method = "delete",
                              !.editingProduct = editingProduct, !.id = p.id,
                              !.category = p.category, !.st = "sent",
                              !.calls = <<"delete">>]]
  /\ loading' = TRUE
  /\ error' = Null
  /\ UNCHANGED <<marker, authed, form, imageFile, uploadingImage, products,
                 editingProduct, store, created, deleted, reloadFailed>>

\* A delete that, on success, drops the product from the snapshot itself
\* instead of reloading.
deleteAfterRequest_patchesLocally(s) ==
  /\ ops[s].kind = "delete" /\ ops[s].pc = "delete" /\ ops[s].st \in {"ok", "fail"}
  /\ UNCHANGED <<marker, authed, uploadingImage, store, created, editingProduct, form,
                 imageFile, reloadFailed>>
  /\ loading' = FALSE
  /\ ops' = [ops EXCEPT ![s] = Idle]
  /\ IF ops[s].st = "ok"
       THEN /\ products' = [c \in Categories |->
                             {p \in products[c] : p.id # ops[s].id}]
            /\ error' = Null
            /\ deleted' = deleted \cup {<<ops[s].id, ops[s].category>>}
       ELSE /\ error' = "Failed to delete product."
            /\ UNCHANGED <<products, deleted>>

\* handleDelete after await deleteProduct, lines 233-241; editingProduct is
\* the closure's.
deleteAfterRequest(s) ==
  /\ ops[s].kind = "delete" /\ ops[s].pc = "delete" /\ ops[s].st \in {"ok", "fail"}
  /\ UNCHANGED <<marker, authed, uploadingImage, products, store, created>>
  /\ IF ops[s].st = "ok"
       THEN /\ IF idOf(ops[s].editingProduct) = ops[s].id
                 THEN /\ editingProduct' = None
                      /\ form' = initialForm
                      /\ imageFile' = NoFile
                 ELSE UNCHANGED <<editingProduct, form, imageFile>>
            /\ error' = Null
            /\ ops' = [ops EXCEPT ![s] = LoadOp(ops[s])]
            /\ deleted' = deleted \cup {<<ops[s].id, ops[s].category>>}
            /\ reloadFailed' = FALSE
            /\ UNCHANGED loading
       ELSE /\ error' = "Failed to delete product."
            /\ loading' = FALSE
            /\ ops' = [ops EXCEPT ![s] = Idle]
            /\ UNCHANGED <<editingProduct, form, imageFile, deleted, reloadFailed>>

\* -------------------------------------------------------------------- load
\* A load that empties the snapshot when the list request fails.
afterLoad_clearsOnFailure(s) ==
  /\ ops[s].pc = "load" /\ ops[s].st \in {"ok", "fail"}
  /\ IF ops[s].st = "ok"
       THEN /\ products' = ops[s].data
            /\ UNCHANGED <<error, reloadFailed>>
       ELSE /\ error' = "Failed to load products."
            /\ reloadFailed' = TRUE
            /\ products' = EmptySnapshot
  /\ loading' = IF ops[s].kind \in {"submit", "delete"} THEN FALSE ELSE loading
  /\ ops' = [ops EXCEPT ![s] = Idle]
  /\ UNCHANGED <<marker, authed, form, imageFile, uploadingImage,
                 editingProduct, store, created, deleted>>

\* A load after which the awaiting handler's finally does not run.
afterLoad_withoutFinally(s) ==
  /\ ops[s].pc = "load" /\ ops[s].st \in {"ok", "fail"}
  /\ IF ops[s].st = "ok"
       THEN /\ products' = ops[s].data
            /\ UNCHANGED <<error, reloadFailed>>
       ELSE /\ error' = "Failed to load products."
            /\ reloadFailed' = TRUE
            /\ UNCHANGED products
  /\ ops' = [ops EXCEPT ![s] = Idle]
  /\ UNCHANGED <<marker, authed, form, imageFile, uploadingImage, loading,
                 editingProduct, store, created, deleted>>

\* load after await fetchAllProducts, lines 89-93, and, when load was awaited
\* by handleSubmit or handleDelete, the finally that follows (lines 191-193,
\* 239-241).
afterLoad(s) ==
  /\ ops[s].pc = "load" /\ ops[s].st \in {"ok", "fail"}
  /\ IF ops[s].st = "ok"
       THEN /\ products' = ops[s].data
            /\ UNCHANGED <<error, reloadFailed>>
       ELSE /\ error' = "Failed to load products."
            /\ reloadFailed' = TRUE
            /\ UNCHANGED products
  /\ loading' = IF ops[s].kind \in {"submit", "delete"} THEN FALSE ELSE loading
  /\ ops' = [ops EXCEPT ![s] = Idle]
  /\ UNCHANGED <<marker, authed, form, imageFile, uploadingImage,
                 editingProduct, store, created, deleted>>

\* ------------------------------------------------------------ remote store
InStore(id, category) ==
  {p \in store.accessories \cup store.gifts :
     p.id = id /\ (category = Absent \/ p.category = category)}

\* POST /products: the store assigns the identifier.
storeCreate(pd) ==
  LET p == [id |-> "n" \o ToString(created + 1), title |-> pd.title,
            description |-> pd.description, price |-> pd.price,
            originalPrice |-> pd.originalPrice, offerPrice |-> pd.offerPrice,
            category |-> pd.category, subcategory |-> pd.subcategory,
            imageUrl |-> pd.imageUrl, image |-> Absent, badge |-> pd.badge,
            availableQuantity |-> pd.availableQuantity]
  IN [store EXCEPT ![pd.category] = @ \cup {p}]

\* PUT /products/{id}?category=: the fields the partial payload carries
\* replace the product's.
storeUpdate(old, pd) ==
  LET pick(name) == IF pd[name] = Absent THEN old[name] ELSE pd[name]
      p == [id |-> old.id, title |-> pick("title"), description |-> pick("description"),
            price |-> pick("price"), originalPrice |-> pick("originalPrice"),
            offerPrice |-> pick("offerPrice"), category |-> pick("category"),
            subcategory |-> pick("subcategory"), imageUrl |-> pick("imageUrl"),
            image |-> old.image, badge |-> pick("badge"),
            availableQuantity |->
              IF pd.availableQuantity = None THEN old.availableQuantity
              ELSE pd.availableQuantity]
      without == [c \in Categories |-> store[c] \ {old}]
  IN [without EXCEPT ![p.category] = @ \cup {p}]

\* DELETE /products/{id}[?category=].
storeDelete(old) == [c \in Categories |-> store[c] \ {old}]

answer(s, out) == [ops EXCEPT ![s].st = out.st, ![s].msg = out.msg]

\* GET /products answered.
serveList(s) ==
  /\ ops[s].st = "sent" /\ ops[s].method = "list"
  /\ \E res \in {Ok200} \cup Failures :
       LET out == jsonOrThrow(res)
       IN ops' = [answer(s, out) EXCEPT ![s].data =
                    IF out.st = "ok" THEN store ELSE EmptySnapshot]
  /\ UNCHANGED <<store, created>>
  /\ UNCHANGED uiVars /\ UNCHANGED <<deleted, reloadFailed>>

\* POST /upload answered with res; the image host keeps no state the console
\* reads.
uploadAnswered(s, res) ==
  /\ ops[s].st = "sent" /\ ops[s].method = "upload"
  /\ ops' = answer(s, uploadImage(res))
  /\ UNCHANGED <<store, created>>
  /\ UNCHANGED uiVars /\ UNCHANGED <<deleted, reloadFailed>>

\* POST /upload answered with one of the given responses.
serveUploadWith(s, responses) == \E res \in responses : uploadAnswered(s, res)

serveUpload(s) == serveUploadWith(s, UploadResponses)

\* POST /products answered.
serveCreate(s) ==
  /\ ops[s].st = "sent" /\ ops[s].method = "create"
  /\ \/ /\ created < MaxCreated
        /\ ops' = answer(s, jsonOrThrow(Ok200))
        /\ store' = storeCreate(ops[s].productData[1])
        /\ created' = created + 1
     \/ /\ \E res \in Failures : ops' = answer(s, jsonOrThrow(res))
        /\ UNCHANGED <<store, created>>
  /\ UNCHANGED uiVars /\ UNCHANGED <<deleted, reloadFailed>>

\* PUT /products/{id} answered.
serveUpdate(s) ==
  /\ ops[s].st = "sent" /\ ops[s].method = "update"
  /\ \/ \E old \in InStore(ops[s].id, ops[s].category) :
          /\ ops' = answer(s, jsonOrThrow(Ok200))
          /\ store' = storeUpdate(old, ops[s].productData[1])
     \/ /\ \E res \in Failures \cup
                      (IF InStore(ops[s].id, ops[s].category) = {} THEN {Http("404")} ELSE {}) :
             ops' = answer(s, jsonOrThrow(res))
        /\ UNCHANGED store
  /\ UNCHANGED created
  /\ UNCHANGED uiVars /\ UNCHANGED <<deleted, reloadFailed>>

\* DELETE /products/{id} answered.
serveDelete(s) ==
  /\ ops[s].st = "sent" /\ ops[s].method = "delete"
  /\ \/ \E old \in InStore(ops[s].id, ops[s].category) :
          /\ ops' = answer(s, jsonOrThrow(Ok200))
          /\ store' = storeDelete(old)
     \/ /\ \E res \in Failures \cup
                      (IF InStore(ops[s].id, ops[s].category) = {} THEN {Http("404")} ELSE {}) :
             ops' = answer(s, jsonOrThrow(res))
        /\ UNCHANGED store
  /\ UNCHANGED created
  /\ UNCHANGED uiVars /\ UNCHANGED <<deleted, reloadFailed>>

\* ------------------------------------------------------------ specification
\* Spec: login, the draft's title and image inputs, edit, cancel, submit and
\* delete, with the remote side answering every request in any order.  The
\* other draft inputs stay as the initial form or handleEdit left them.
MainFields == {"title"}

Next ==
  \/ handleLogin
  \/ \E name \in MainFields : changeField(name)
  \/ selectFile
  \/ changeImageUrl
  \/ handleEdit
  \/ handleCancelEdit
  \/ handleSubmit
  \/ handleDelete
  \/ \E s \in Slots : submitAfterUpload(s)
  \/ \E s \in Slots : submitAfterMutate(s)
  \/ \E s \in Slots : deleteAfterRequest(s)
  \/ \E s \in Slots : afterLoad(s)
  \/ \E s \in Slots : serveList(s)
  \/ \E s \in Slots : serveUpload(s)
  \/ \E s \in Slots : serveCreate(s)
  \/ \E s \in Slots : serveUpdate(s)
  \/ \E s \in Slots : serveDelete(s)

Spec == Init /\ [][Next]_vars

\* ---------------------------------------------- specification of the payloads
\* PayloadSpec: the console opened by an authenticated operator on a catalog
\* that already holds products, with the title, price, category, subcategory,
\* quantity and image inputs in use, and an image host that may also answer
\* 200 with an empty or a missing url.  The operator acts
\* while no request is outstanding (one operation at a time), so the draft a
\* handler captured is the draft on screen until the handler ends.  The remote
\* store refuses every create and update here, so the catalog stays the one
\* the console opened on; the successful path is Spec's.
Product(id, category, subcategory, imageUrl, image, quantity) ==
  [id |-> id, title |-> "Ring", description |-> Absent, price |-> Absent,
   originalPrice |-> "500", offerPrice |-> Absent, category |-> category,
   subcategory |-> subcategory, imageUrl |-> imageUrl, image |-> image,
   badge |-> "New", availableQuantity |-> quantity]

\* An accessory with a hosted image and a quantity of 0, and a gift that has
\* only the legacy image field and carries a quantity.
P1 == Product("p1", "accessories", "Necklaces", "old.png", Absent, Some(0))
P2 == Product("p2", "gifts", "Bouquet", Absent, "legacy.png", Some(1))
\* A gift with every optional text field filled and both image fields.
P3 ==
  [P2 EXCEPT !.id = "p3", !.description = "x", !.price = "450", !.offerPrice = "400",
             !.subcategory = "Return gifts", !.imageUrl = "new.png",
             !.availableQuantity = None]
PayloadCatalogs == {[accessories |-> {P1}, gifts |-> {P2, P3}]}

\* Failures of the image host: a JSON body with an error field, a JSON body
\* with an empty one, and a body that is not JSON (a proxy's HTML page).
UploadFailures ==
  {Response(FALSE, FALSE, "400", TRUE, "Bad file", Absent),
   Response(FALSE, FALSE, "400", TRUE, "", Absent),
   Response(FALSE, FALSE, "502", FALSE, Absent, Absent)}

PayloadUploadResponses ==
  UploadResponses \cup UploadFailures \cup
    {Response(FALSE, TRUE, "200", TRUE, Absent, u) : u \in {"", Absent}}

\* POST /products or PUT /products/{id} answered with a failure (the failure
\* branch of serveCreate and serveUpdate).
refuseMutation(s) ==
  /\ ops[s].st = "sent" /\ ops[s].method \in {"create", "update"}
  /\ \E res \in Failures : ops' = answer(s, jsonOrThrow(res))
  /\ UNCHANGED <<store, created>>
  /\ UNCHANGED uiVars /\ UNCHANGED <<deleted, reloadFailed>>

PayloadFields ==
  {"title", "price", "originalPrice", "offerPrice", "subcategory", "availableQuantity"}

PayloadInit ==
  /\ marker = TRUE
  /\ authed = TRUE
  /\ form = initialForm
  /\ imageFile = NoFile
  /\ uploadingImage = FALSE
  /\ products = EmptySnapshot
  /\ loading = FALSE
  /\ error = Null
  /\ editingProduct = None
  /\ ops = [s \in Slots |-> IF s = 1 THEN LoadOp([Idle EXCEPT !.kind = "load"]) ELSE Idle]
  /\ store \in PayloadCatalogs
  /\ created = 0
  /\ deleted = {}
  /\ reloadFailed = FALSE

PayloadNext ==
  \/ Quiescent /\ \E name \in PayloadFields : changeField(name)
  \/ Quiescent /\ changeCategory
  \/ Quiescent /\ selectFile
  \/ Quiescent /\ changeImageUrl
  \/ Quiescent /\ handleEdit
  \/ Quiescent /\ handleCancelEdit
  \/ Quiescent /\ handleSubmit
  \/ \E s \in Slots : submitAfterUpload(s)
  \/ \E s \in Slots : submitAfterMutate(s)
  \/ \E s \in Slots : afterLoad(s)
  \/ \E s \in Slots : serveList(s)
  \/ \E s \in Slots : serveUploadWith(s, PayloadUploadResponses)
  \/ \E s \in Slots : refuseMutation(s)

PayloadSpec == PayloadInit /\ [][PayloadNext]_vars

\* ------------------------------------------------------------------ claims
\* Vocabulary of the claims, stated on the state alone.
BlankTitle(t) == t \in {"", " ", "  "}
Empty(v) == v \in {"", Absent}
DraftReset(f, file, ep) == f = initialForm /\ file = NoFile /\ ep = None
MutationCalls(o) ==
  Cardinality({i \in 1 .. Len(o.calls) : o.calls[i] \in {"create", "update"}})
ListCalls(o) == Cardinality({i \in 1 .. Len(o.calls) : o.calls[i] = "list"})
\* The handler in slot s resumes in this step with the answer it waited for.
Resumes(s) == ops[s].st \in {"ok", "fail"} /\ ops'[s] # ops[s]
\* The handler o has just issued its one create / update: an update exactly
\* when the edit target ep it captured is set.
IssuedMutation(o, ep) ==
  /\ o.kind = "submit" /\ o.pc = "mutate" /\ o.st = "sent"
  /\ o.method = IF ep = None THEN "create" ELSE "update"
  /\ o.calls[Len(o.calls)] = o.method
  /\ MutationCalls(o) = 1
ValidationErrors ==
  {"Title required", "Category required",
   "Please provide an image (upload file or enter URL)"}

\* C1: a submit of a draft with a non-blank title, a category and a resolvable
\* image (a typed URL, the edit target's image, or a file whose upload
\* succeeded with a URL) issues exactly one create / update, an update exactly
\* when the edit target was set at activation; no submit ever issues two; and
\* when that call succeeds the draft, the selected file and the edit target
\* are reset.
C1_OneMutationThenReset ==
  [][/\ (/\ handleSubmit
         /\ ~BlankTitle(form.title) /\ ~Empty(form.category) /\ imageFile = NoFile
         /\ (~Empty(form.imageUrl) \/ editingProduct # None))
        => \E s \in Slots :
             /\ ops[s].kind = "idle"
             /\ IssuedMutation(ops'[s], editingProduct)
             /\ \A t \in Slots \ {s} : ops'[t] = ops[t]
     /\ \A s \in Slots :
          /\ (/\ ops[s].kind = "submit" /\ ops[s].pc = "upload" /\ Resumes(s)
              /\ ops[s].st = "ok" /\ ~Empty(ops[s].msg))
             => IssuedMutation(ops'[s], ops[s].editingProduct)
          /\ (/\ ops[s].kind = "submit" /\ ops[s].pc = "mutate" /\ Resumes(s)
              /\ ops[s].st = "ok")
             => /\ DraftReset(form', imageFile', editingProduct')
                /\ MutationCalls(ops'[s]) = 1
          /\ MutationCalls(ops'[s]) <= 1
    ]_vars

\* C1 witness: an update (after an upload) has succeeded, its handler is
\* reloading and the draft is reset.
C1_Witness ==
  \E s \in Slots :
    /\ ops[s].calls = <<"upload", "update", "list">>
    /\ DraftReset(form, imageFile, editingProduct)

\* C2: a submit with a blank title, or a create with neither a file nor a
\* typed URL, ends with a validation error and issues no request: no handler
\* is left in flight and the remote store is untouched.
C2_ValidationBlocksCalls ==
  [][(/\ handleSubmit
      /\ \/ BlankTitle(form.title)
         \/ editingProduct = None /\ imageFile = NoFile /\ Empty(form.imageUrl))
     => /\ ops' = ops
        /\ error' \in ValidationErrors
        /\ ~loading' /\ ~uploadingImage'
        /\ store' = store /\ products' = products
    ]_vars

\* C2 witness: a create with a title but neither a file nor a typed URL was
\* refused: the image error is shown and nothing is in flight.
C2_Witness ==
  /\ error = "Please provide an image (upload file or enter URL)"
  /\ Quiescent /\ ~loading
  /\ form.title = "T" /\ Empty(form.imageUrl) /\ imageFile = NoFile /\ editingProduct = None

\* C3: once the operator is logged in, no request is outstanding and no list
\* request has failed since the last successful create, update or delete, the
\* snapshot equals the remote store's two lists.
C3_SnapshotEqualsStore ==
  (authed /\ Quiescent /\ ~reloadFailed) => products = store

\* Requests of a mutating operation (upload, create, update, delete) that the
\* remote side has not answered yet.
MutatingOutstanding ==
  {s \in Slots : ops[s].pc \in {"upload", "mutate", "delete"} /\ ops[s].st = "sent"}

\* C4: at most one mutating request (upload, create, update or delete) is
\* outstanding at any time.
C4_OneMutatingOperation == Cardinality(MutatingOutstanding) <= 1

\* C5: no two submit handlers are in flight at the same time.
C5_OneSubmitInFlight ==
  Cardinality({s \in Slots : ops[s].kind = "submit"}) <= 1

\* C6: a handler whose create, update or delete succeeded issues exactly one
\* list request and nothing after it; one whose create, update or delete
\* failed issues none; and a successful list response replaces the snapshot
\* with exactly that response.
C6_ReloadAfterMutation ==
  [][\A s \in Slots :
       /\ (ops[s].pc \in {"mutate", "delete"} /\ Resumes(s) /\ ops[s].st = "ok")
          => /\ ops'[s].pc = "load" /\ ops'[s].method = "list" /\ ops'[s].st = "sent"
             /\ ops'[s].calls = Append(ops[s].calls, "list")
             /\ ListCalls(ops'[s]) = 1
       /\ (ops[s].pc \in {"mutate", "delete"} /\ Resumes(s) /\ ops[s].st = "fail")
          => /\ ops'[s] = Idle
             /\ ListCalls(ops[s]) = 0
             /\ products' = products
       /\ (ops[s].pc = "load" /\ Resumes(s))
          => /\ ops'[s] = Idle
             /\ ops[s].st = "ok" => products' = ops[s].data
    ]_vars

\* C6 witness: the reload that followed a successful delete has been answered
\* and its response, which differs from the snapshot, is about to replace it.
C6_Witness ==
  \E s \in Slots :
    /\ ops[s].kind = "delete" /\ ops[s].calls = <<"delete", "list">>
    /\ ops[s].st = "ok" /\ ops[s].data # products

\* C7: the snapshot changes only by being replaced, both lists at once, with
\* the response of a successful list request; no failed request and no
\* create, update or delete response changes it.
C7_SnapshotOnlyFromList ==
  [][products' # products
       => \E s \in Slots :
            /\ ops[s].pc = "load" /\ ops[s].method = "list" /\ ops[s].st = "ok"
            /\ Resumes(s)
            /\ products' = ops[s].data
    ]_vars

\* C7 witness: a create has failed and a list request has failed, and the
\* snapshot still is a list response that does not hold the refused product.
C7_Witness ==
  /\ products # EmptySnapshot
  /\ error = "Failed to load products."
  /\ \E s \in Slots : ops[s].method = "create" /\ ops[s].st = "fail"

\* category of an optional product.
categoryOf(ep) == IF ep = None THEN Absent ELSE ep[1].category

\* C8: when a delete request for a product succeeds and that product is the
\* edit target at that moment, the draft, the selected file and the edit
\* target are reset.
C8_DeleteOfEditTargetResets ==
  [][\A s \in Slots :
       (/\ ops[s].kind = "delete" /\ ops[s].pc = "delete" /\ Resumes(s)
        /\ ops[s].st = "ok"
        /\ idOf(editingProduct) = ops[s].id
        /\ categoryOf(editingProduct) = ops[s].category)
       => DraftReset(form', imageFile', editingProduct')
    ]_vars

\* C9: whenever no request is outstanding and an edit target is set, the edit
\* target has not been deleted by a delete the console saw succeed.
C9_EditTargetNotDeleted ==
  (Quiescent /\ editingProduct # None)
    => <<idOf(editingProduct), categoryOf(editingProduct)>> \notin deleted

\* Payload fields that hold a string.
StringFields ==
  {"title", "description", "price", "originalPrice", "offerPrice", "category",
   "subcategory", "badge", "imageUrl"}

\* C10: no payload sent by create or update holds a field whose value is the
\* empty string.
C10_NoEmptyStringInPayload ==
  \A s \in Slots :
    ops[s].pc = "mutate" =>
      \A name \in StringFields : ops[s].productData[1][name] # ""

\* ------------------------------------------------------- claims on payloads
\* The handler in slot s issues its create / update in this step.
Issued(s) == ops[s].pc # "mutate" /\ ops'[s].pc = "mutate"
\* What that handler's closure holds: the state on screen when the handler is
\* activated in this very step, the captured values when it resumes.
ClosureForm(s) == IF ops[s].kind = "idle" THEN form ELSE ops[s].form
ClosureFile(s) == IF ops[s].kind = "idle" THEN imageFile ELSE ops[s].imageFile
ClosureTarget(s) == IF ops[s].kind = "idle" THEN editingProduct ELSE ops[s].editingProduct
\* The payload of the request issued in this step.
Payload(s) == ops'[s].productData[1]
\* A product's existing image reference: its imageUrl, or its legacy image
\* when imageUrl is empty.
ExistingImage(p) ==
  IF ~Empty(p.imageUrl) THEN p.imageUrl ELSE IF ~Empty(p.image) THEN p.image ELSE ""

\* C11: when the closure of a submit holds a file, the request is issued after
\* the upload resolved and its payload's image reference is the URL the upload
\* returned, whatever the URL field holds; when it holds no file and a
\* non-empty typed URL, the payload carries that URL unchanged.
C11_ImagePrecedence ==
  [][\A s \in Slots :
       Issued(s) =>
         /\ ClosureFile(s) # NoFile
              => /\ ops[s].pc = "upload" /\ ops[s].st = "ok"
                 /\ Payload(s).imageUrl = ops[s].msg
         /\ (ClosureFile(s) = NoFile /\ ~Empty(ClosureForm(s).imageUrl))
              => Payload(s).imageUrl = ClosureForm(s).imageUrl
    ]_vars

\* C11 witness: an update of p1 (whose own image is old.png) issued after an
\* upload carries the uploaded URL.
C11_Witness ==
  \E s \in Slots :
    /\ ops[s].calls = <<"upload", "update">> /\ ops[s].id = "p1"
    /\ ops[s].productData[1].imageUrl = "cdn.png"
    /\ imageFile = File1

\* C13 witness: p2, which has only a legacy image, was opened, its URL field
\* was emptied, and the update in flight carries the legacy image.
C13_Witness ==
  \E s \in Slots :
    /\ ops[s].pc = "mutate" /\ ops[s].method = "update" /\ ops[s].id = "p2"
    /\ form.imageUrl = "" /\ imageFile = NoFile
    /\ ops[s].productData[1].imageUrl = "legacy.png"

\* C13: an update issued with no file selected and the URL field either as
\* begin-edit filled it or emptied carries the edit target's existing image
\* reference, which is not empty when the product had an image.
C13_EditKeepsImage ==
  [][\A s \in Slots :
       (/\ Issued(s) /\ ClosureTarget(s) # None /\ ClosureFile(s) = NoFile
        /\ ClosureForm(s).imageUrl \in {"", ExistingImage(ClosureTarget(s)[1])})
       => /\ ops'[s].method = "update"
          /\ Payload(s).imageUrl = ExistingImage(ClosureTarget(s)[1])
          /\ (\/ ~Empty(ClosureTarget(s)[1].imageUrl)
              \/ ~Empty(ClosureTarget(s)[1].image)) => ~Empty(Payload(s).imageUrl)
    ]_vars

\* C12: the draft never holds both a selected file and a non-empty typed URL;
\* begin-edit, cancel and a successful submit leave no file selected.
C12_FileXorUrl ==
  /\ [](~(imageFile # NoFile /\ ~Empty(form.imageUrl)))
  /\ [][/\ (editingProduct' # editingProduct) => imageFile' = NoFile
        /\ \A s \in Slots :
             (ops[s].kind = "submit" /\ ops[s].pc = "mutate" /\ Resumes(s)
              /\ ops[s].st = "ok") => imageFile' = NoFile
       ]_vars

\* C12 witness: a file was selected on a draft that begin-edit had filled with
\* the product's URL, and the URL field is empty.
C12_Witness ==
  /\ imageFile = File1 /\ form.imageUrl = ""
  /\ editingProduct # None /\ ~Empty(ExistingImage(editingProduct[1]))

\* C14: a submit activated with an edit target issues an update whose
\* identifier and category argument are that product's; one activated with no
\* edit target issues a create.
C14_UpdateScopedToTarget ==
  [][\A s \in Slots :
       Issued(s) =>
         IF ClosureTarget(s) # None
           THEN /\ ops'[s].method = "update"
                /\ ops'[s].id = idOf(ClosureTarget(s))
                /\ ops'[s].category = categoryOf(ClosureTarget(s))
           ELSE ops'[s].method = "create"
    ]_vars

\* The number a quantity field holds (the value of a number input).
FieldNumber(q) ==
  CASE q = "0" -> 0
    [] q = "1" -> 1
    [] q = "3" -> 3
    [] q = "100" -> 100
    [] q = "1e2" -> 100

\* C15: a payload carries availableQuantity exactly when the draft's category
\* is accessories and the quantity field is not empty, and then it is the
\* number the field holds; a gifts payload carries none.
C15_QuantityRule ==
  [][\A s \in Slots :
       Issued(s) =>
         Payload(s).availableQuantity =
           IF ClosureForm(s).category = "accessories" /\ ClosureForm(s).availableQuantity # ""
             THEN Some(FieldNumber(ClosureForm(s).availableQuantity))
             ELSE None
    ]_vars

\* Draft fields other than the category and the subcategory.
OtherFields ==
  {"title", "description", "price", "originalPrice", "offerPrice", "badge",
   "imageUrl", "availableQuantity"}

\* C16: a step that changes the draft's category on the same edit target (the
\* category select; begin-edit and cancel change the target) empties the
\* subcategory and leaves every other draft field, the selected file and the
\* edit target as they were.
C16_CategoryChangeClearsSubcategory ==
  [][(form'.category # form.category /\ editingProduct' = editingProduct)
     => /\ form'.subcategory = ""
        /\ \A name \in OtherFields : form'[name] = form[name]
        /\ imageFile' = imageFile
    ]_vars

\* C16 witness: p1 (Necklaces) is open, the title was retyped and a file
\* selected, and the category is no longer the product's: the subcategory is
\* empty and the rest is in place.
C16_Witness ==
  /\ idOf(editingProduct) = "p1" /\ form.category = "gifts" /\ form.subcategory = ""
  /\ form.title = "T" /\ form.originalPrice = "500" /\ imageFile = File1

\* The fixed vocabularies, as the data model lists them.
InVocabulary(c, sub) ==
  \/ c = "accessories" /\ sub \in {"Necklaces", "Anklets"}
  \/ c = "gifts" /\ sub \in {"Bouquet", "Return gifts"}

\* C17: a create or update payload that carries a subcategory carries one of
\* the vocabulary of the payload's own category.
C17_SubcategoryInVocabulary ==
  \A s \in Slots :
    ops[s].pc = "mutate" =>
      \/ ops[s].productData[1].subcategory = Absent
      \/ InVocabulary(ops[s].productData[1].category, ops[s].productData[1].subcategory)

\* C17 witness: p2 (gifts, Bouquet) was opened, moved to accessories and given
\* a subcategory again, and the update in flight carries it.
C17_Witness ==
  \E s \in Slots :
    /\ ops[s].pc = "mutate" /\ ops[s].id = "p2"
    /\ ops[s].productData[1].category = "accessories"
    /\ ops[s].productData[1].subcategory = "Anklets"

\* C18: in every payload the legacy price is the draft's when that is not
\* empty and the draft's originalPrice when the legacy price is empty and
\* originalPrice is not; offerPrice, badge and subcategory left empty are
\* absent from the payload.
C18_PriceBackfill ==
  [][\A s \in Slots :
       Issued(s) =>
         /\ ~Empty(ClosureForm(s).price) => Payload(s).price = ClosureForm(s).price
         /\ (Empty(ClosureForm(s).price) /\ ~Empty(ClosureForm(s).originalPrice))
              => Payload(s).price = ClosureForm(s).originalPrice
         /\ \A name \in {"offerPrice", "badge", "subcategory"} :
              Empty(ClosureForm(s)[name]) => Payload(s)[name] = Absent
    ]_vars

\* C18 witness: the create of an accessory with originalPrice 500, no legacy
\* price and a pasted URL is in flight with price 500 and without offerPrice,
\* badge, subcategory and availableQuantity.
C18_Witness ==
  \E s \in Slots :
    /\ ops[s].pc = "mutate" /\ ops[s].method = "create"
    /\ form.price = "" /\ form.originalPrice = "500" /\ form.imageUrl = "u.png"
    /\ ops[s].productData[1].category = "accessories"
    /\ ops[s].productData[1].price = "500"
    /\ ops[s].productData[1].offerPrice = Absent
    /\ ops[s].productData[1].badge = Absent
    /\ ops[s].productData[1].subcategory = Absent
    /\ ops[s].productData[1].availableQuantity = None

\* C19: every create in flight carries a non-blank title, a category and a
\* non-empty image reference; a submit with no edit target whose upload
\* succeeded with an empty or missing URL ends with the image error and
\* issues no create.
C19_CreateIsComplete ==
  /\ [](\A s \in Slots :
          (ops[s].pc = "mutate" /\ ops[s].method = "create")
          => /\ ~BlankTitle(ops[s].productData[1].title)
             /\ ops[s].productData[1].category \in {"accessories", "gifts"}
             /\ ~Empty(ops[s].productData[1].imageUrl))
  /\ [][\A s \in Slots :
          (/\ ops[s].kind = "submit" /\ ops[s].pc = "upload" /\ Resumes(s)
           /\ ops[s].st = "ok" /\ Empty(ops[s].msg) /\ ops[s].editingProduct = None)
          => /\ ops'[s] = Idle
             /\ error' = "Please provide an image (upload file or enter URL)"
       ]_vars

\* C19 witness: the upload of a create was answered 200 with an empty URL and
\* its handler is about to resume.
C19_Witness ==
  \E s \in Slots :
    /\ ops[s].kind = "submit" /\ ops[s].pc = "upload" /\ ops[s].st = "ok"
    /\ ops[s].msg = "" /\ ops[s].editingProduct = None /\ ops[s].form.title = "T"

\* C20: a submit whose upload failed ends there: it has issued the upload
\* and nothing else, the error shown is the upload's message behind
\* "Image upload failed: ", and the upload-in-progress flag is false.
C20_UploadFailureAborts ==
  [][\A s \in Slots :
       (/\ ops[s].kind = "submit" /\ ops[s].pc = "upload" /\ Resumes(s)
        /\ ops[s].st = "fail")
       => /\ ops'[s] = Idle
          /\ ops[s].calls = <<"upload">>
          /\ error' = "Image upload failed: " \o ops[s].msg
          /\ ~uploadingImage'
          /\ store' = store /\ products' = products
    ]_vars

\* C20 witness: the upload of an update failed with HTTP 500: the wrapped
\* error is shown, nothing is in flight and the edit target is still set.
C20_Witness ==
  /\ error = "Image upload failed: HTTP 500"
  /\ Quiescent /\ ~uploadingImage /\ ~loading
  /\ editingProduct # None /\ imageFile = File1

\* -------------------------------------------- claims on failures and overlap
\* The draft, the selected file and the edit target.
draft == <<form, imageFile, editingProduct>>
\* The handler in slot s ends in this step with a failure of its request.
FailsIn(s) ==
  /\ ops[s].kind \in {"submit", "delete"} /\ ops[s].pc \in {"upload", "mutate", "delete"}
  /\ ops[s].st = "fail" /\ Resumes(s)
\* The delete handler in slot s resumes in this step after a successful delete.
DeleteSucceeds(s) ==
  ops[s].kind = "delete" /\ ops[s].pc = "delete" /\ ops[s].st = "ok" /\ Resumes(s)
\* The product the delete in slot s removed is the edit target of the moment.
DeletesEditTarget(s) ==
  idOf(editingProduct) = ops[s].id /\ categoryOf(editingProduct) = ops[s].category

\* C21: a submit that fails (validation, upload, create or update) and a
\* delete that fails leave the draft, the selected file and the edit target
\* as they are; and a handler resets the draft only when it resumes after a
\* successful create / update or after a successful delete of the product
\* that is the edit target (cancel is the operator's own step).
C21_ResetOnlyOnSuccess ==
  [][/\ \A s \in Slots : FailsIn(s) => draft' = draft
     /\ (handleSubmit /\ error' \in ValidationErrors) => draft' = draft
     /\ (ops' # ops /\ draft' # draft)
          => /\ DraftReset(form', imageFile', editingProduct')
             /\ \E s \in Slots :
                  \/ /\ ops[s].kind = "submit" /\ ops[s].pc = "mutate"
                     /\ ops[s].st = "ok" /\ Resumes(s)
                  \/ DeleteSucceeds(s) /\ DeletesEditTarget(s)
    ]_vars

\* C22: a failed create or update shows "Failed to add product.", a failed
\* delete "Failed to delete product." and a failed list request "Failed to
\* load products.".
C22_GenericMessages ==
  [][\A s \in Slots :
       (ops[s].st = "fail" /\ Resumes(s))
       => /\ ops[s].pc = "mutate" => error' = "Failed to add product."
          /\ ops[s].pc = "delete" => error' = "Failed to delete product."
          /\ ops[s].pc = "load" => error' = "Failed to load products."
    ]_vars

\* FairSpec: overlapping handlers with the event loop and the network making
\* progress: a request that was sent is answered (fetch settles) and a handler
\* whose awaited promise settled resumes.  Nothing is assumed of the operator,
\* who logs in, types a title, selects a file, begins edits, submits and
\* deletes at any moment (images come from uploads here: the URL input and
\* cancel are left to Spec).
Progress(s) ==
  \/ submitAfterUpload(s) \/ submitAfterMutate(s) \/ deleteAfterRequest(s)
  \/ afterLoad(s)
  \/ serveList(s) \/ serveUpload(s) \/ serveCreate(s) \/ serveUpdate(s) \/ serveDelete(s)

FairNext ==
  \/ handleLogin
  \/ changeField("title")
  \/ selectFile
  \/ handleEdit
  \/ handleSubmit
  \/ handleDelete
  \/ \E s \in Slots : Progress(s)

FairSpec == Init /\ [][FairNext]_vars /\ \A s \in Slots : WF_vars(Progress(s))

\* C23: whenever no handler is in flight the loading flag and the
\* upload-in-progress flag are false, and every handler in flight ends.
C23_ControlsComeBack ==
  /\ [](Quiescent => (~loading /\ ~uploadingImage))
  /\ \A s \in Slots : (ops[s].kind # "idle") ~> (ops[s].kind = "idle")

\* C23 witness: an upload, a delete and a list request have failed one after
\* the other, nothing is in flight and both flags are false.
C23_Witness ==
  /\ Quiescent /\ ~loading /\ ~uploadingImage
  /\ error = "Failed to delete product." /\ reloadFailed
  /\ imageFile = File1

\* C24: a login attempt with the matching secret records the marker, sets the
\* session authenticated and issues exactly one list request; an attempt with
\* any other secret shows an error and changes nothing else and issues no
\* request.
C24_LoginGate ==
  [][\A typed \in {"", "admin123", "guess"} :
       login(typed) =>
         IF typed = "admin123"
           THEN /\ marker' /\ authed'
                /\ \E s \in Slots :
                     /\ ops[s].kind = "idle"
                     /\ ops'[s].method = "list" /\ ops'[s].st = "sent"
                     /\ ops'[s].calls = <<"list">>
                     /\ \A t \in Slots \ {s} : ops'[t] = ops[t]
           ELSE /\ error' = "Invalid password"
                /\ ~authed' /\ marker' = marker
                /\ products' = products /\ draft' = draft
                /\ ops' = ops /\ store' = store
    ]_vars

\* C24 witness: an attempt with a wrong secret was refused: the error is
\* shown, the session is not authenticated, no marker is recorded, nothing is
\* in flight and the snapshot and the draft are as they started.
C24_Witness ==
  /\ error = "Invalid password"
  /\ ~authed /\ ~marker /\ Quiescent
  /\ products = EmptySnapshot /\ form = initialForm

\* What the claim says uploadImage does with a response.
UploadContract(res) ==
  IF res.ok THEN Outcome("ok", res.url)
  ELSE IF res.json /\ ~Empty(res.error) THEN Outcome("fail", res.error)
  ELSE Outcome("fail", "HTTP " \o res.status)

\* C25: uploadImage returns the hosted URL for a success response, fails with
\* the body's error field for a non-success response that has a non-empty
\* one, and with the HTTP-status error for every other non-success response.
C25_UploadErrorMessage ==
  [][\A s \in Slots : \A res \in PayloadUploadResponses :
       uploadAnswered(s, res)
         => Outcome(ops'[s].st, ops'[s].msg) = UploadContract(res)
    ]_vars

\* C26: a successful delete of a product that is not the edit target of the
\* moment leaves the draft, the selected file and the edit target unchanged.
C26_OtherDeleteKeepsDraft ==
  [][\A s \in Slots :
       (DeleteSucceeds(s) /\ ~DeletesEditTarget(s)) => draft' = draft
    ]_vars

\* C27: the closure of a submit in flight is the draft, file and edit target of
\* its activation and no step changes it; the request is built from that
\* closure and no step changes a request that was sent; and a successful
\* submit resets the draft.
C27_SubmitUsesActivationDraft ==
  [][\A s \in Slots :
       /\ (ops[s].kind = "idle" /\ ops'[s].kind = "submit" /\ ops'[s].pc = "upload")
            => /\ ops'[s].form = form /\ ops'[s].imageFile = imageFile
               /\ ops'[s].editingProduct = editingProduct
       /\ (ops[s].pc = "upload" /\ ops'[s].pc = "upload")
            => /\ ops'[s].form = ops[s].form /\ ops'[s].imageFile = ops[s].imageFile
               /\ ops'[s].editingProduct = ops[s].editingProduct
       /\ (ops[s].pc = "mutate" /\ ops'[s].pc = "mutate")
            => /\ ops'[s].productData = ops[s].productData
               /\ ops'[s].method = ops[s].method /\ ops'[s].id = ops[s].id
       /\ Issued(s)
            => /\ Payload(s).title = ClosureForm(s).title
               /\ Payload(s).category = ClosureForm(s).category
               /\ ops'[s].method = (IF ClosureTarget(s) = None THEN "create" ELSE "update")
               /\ ops'[s].id = idOf(ClosureTarget(s))
               /\ ClosureFile(s) # NoFile => Payload(s).imageUrl = ops[s].msg
       /\ (ops[s].kind = "submit" /\ ops[s].pc = "mutate" /\ ops[s].st = "ok" /\ Resumes(s))
            => DraftReset(form', imageFile', editingProduct')
    ]_vars

\* C27 witness: a create issued after an upload carries the title of the
\* activation while the draft on screen has since been opened on a product.
C27_Witness ==
  \E s \in Slots :
    /\ ops[s].calls = <<"upload", "create">> /\ ops[s].st = "sent"
    /\ ops[s].productData[1].title = "T"
    /\ editingProduct # None /\ form.title # "T"

\* Text fields of a product that begin-edit copies into the draft.
CopiedFields ==
  {"title", "description", "category", "subcategory", "badge", "originalPrice",
   "offerPrice"}

\* C28: a submit of the draft exactly as begin-edit filled it from product P
\* issues an update for P's identifier that carries P's non-empty title,
\* description, category, subcategory, badge, originalPrice and offerPrice,
\* P's image reference, and P's quantity when P is an accessory that has one.
C28_EditThenSubmitRoundTrip ==
  [][\A s \in Slots :
       (/\ Issued(s) /\ ClosureTarget(s) # None /\ ClosureFile(s) = NoFile
        /\ ClosureForm(s) = editForm(ClosureTarget(s)[1]))
       => LET P == ClosureTarget(s)[1]
          IN /\ ops'[s].method = "update" /\ ops'[s].id = P.id
             /\ \A name \in CopiedFields :
                  ~Empty(P[name]) => Payload(s)[name] = P[name]
             /\ Payload(s).imageUrl = ExistingImage(P)
             /\ (P.category = "accessories" /\ P.availableQuantity # None)
                  => Payload(s).availableQuantity = P.availableQuantity
    ]_vars

\* C28 witness: p1 was opened and submitted as loaded: the update in flight
\* carries its badge, its image and its quantity 0.
C28_Witness ==
  \E s \in Slots :
    /\ ops[s].pc = "mutate" /\ ops[s].method = "update" /\ ops[s].id = "p1"
    /\ form = editForm(P1)
    /\ ops[s].productData[1].badge = "New"
    /\ ops[s].productData[1].imageUrl = "old.png"
    /\ ops[s].productData[1].availableQuantity = Some(0)

====
